---- MODULE Spec2Model ----
(***************************************************************************)
(* The dictionary compiler of epub2stardict (src/600_create_stardict.py):  *)
(* load_entries_from_sources, build_definition, stardict_strcmp and        *)
(* build_dict_and_idx as a state machine over byte strings.                *)
(*                                                                         *)
(* A Python str is modelled by its UTF-8 encoding, a sequence of byte      *)
(* values 0..255; bytes objects are the same sequences.                    *)
(***************************************************************************)
EXTENDS Integers, Sequences, FiniteSets, TLC

\* ------------------------------------------------------------------ bounds

\* Total number of input lines over all source files.
MaxLines == 3

\* Longest headword handed to the comparator in SpecCmp.
MaxStrLen == 2

\* Number of entries handed to build_dict_and_idx in SpecPack.
MaxEntries == 3

\* ------------------------------------------------------------ byte strings

\* The bytes str.strip() removes (ASCII part of str.isspace()).
Whitespace == {9, 10, 11, 12, 13, 28, 29, 30, 31, 32}

NL == <<10>>

RECURSIVE LStrip(_)
LStrip(s) ==
    IF s # <<>> /\ Head(s) \in Whitespace THEN LStrip(Tail(s)) ELSE s

RECURSIVE RStrip(_)
RStrip(s) ==
    IF s # <<>> /\ s[Len(s)] \in Whitespace
    THEN RStrip(SubSeq(s, 1, Len(s) - 1))
    ELSE s

\* str.strip()
Strip(s) == RStrip(LStrip(s))

\* Python's `a or b` on strings (None and "" are both falsy).
Or(a, b) == IF a # <<>> THEN a ELSE b

\* sep.join(parts)
RECURSIVE Join(_, _)
Join(parts, sep) ==
    IF parts = <<>> THEN <<>>
    ELSE IF Len(parts) = 1 THEN parts[1]
    ELSE parts[1] \o sep \o Join(Tail(parts), sep)

\* bytes `<` : lexicographic order on byte sequences.
RECURSIVE BytesLess(_, _)
BytesLess(b1, b2) ==
    IF b2 = <<>> THEN FALSE
    ELSE IF b1 = <<>> THEN TRUE
    ELSE IF Head(b1) # Head(b2) THEN Head(b1) < Head(b2)
    ELSE BytesLess(Tail(b1), Tail(b2))

\* ------------------------------------------------------------ the collator

\* g_ascii_tolower on every byte: only 'A'..'Z' change
ascii_lower_bytes(b) ==
    [i \in 1..Len(b) |-> IF 65 <= b[i] /\ b[i] <= 90 THEN b[i] + 32 ELSE b[i]]

\* A variant without the strcmp fallback: case-folded equals compare 0.
stardict_strcmp_fold_only(s1, s2) ==
    LET c1 == ascii_lower_bytes(s1)
        c2 == ascii_lower_bytes(s2)
    IN  IF BytesLess(c1, c2) THEN -1
        ELSE IF BytesLess(c2, c1) THEN 1
        ELSE 0

\* s1, s2 arrive as their UTF-8 encoding, so b1 = s1 and b2 = s2
stardict_strcmp(s1, s2) ==
    LET b1 == s1
        b2 == s2
        c1 == ascii_lower_bytes(b1)
        c2 == ascii_lower_bytes(b2)
    IN  IF BytesLess(c1, c2) THEN -1
        ELSE IF BytesLess(c2, c1) THEN 1
        ELSE IF BytesLess(b1, b2) THEN -1
        ELSE IF BytesLess(b2, b1) THEN 1
        ELSE 0

\* ----------------------------------------------------------- configuration

\* "GPT-5-mini"
GPT5mini == <<71, 80, 84, 45, 53, 45, 109, 105, 110, 105>>

\* "gemma3:27b"
gemma3 == <<103, 101, 109, 109, 97, 51, 58, 50, 55, 98>>

\* "other": a source label that MODEL_PRIORITY does not rank.
OtherLabel == <<111, 116, 104, 101, 114>>

MODEL_PRIORITY == <<GPT5mini, gemma3>>

\* The labels a source file may be configured with.
SourceLabels == {GPT5mini, gemma3, OtherLabel}

\* INPUT_SOURCES lists two files, each under a label of its own.
SourceConfigs == {c \in SourceLabels \X SourceLabels : c[1] # c[2]}

\* A variant whose default is 0: priority_index.get(label, 0)
PriorityKeyDefaultZero(label) ==
    IF \E i \in 1..Len(MODEL_PRIORITY) : MODEL_PRIORITY[i] = label
    THEN (CHOOSE i \in 1..Len(MODEL_PRIORITY) : MODEL_PRIORITY[i] = label) - 1
    ELSE 0

\* priority_index.get(label, 999); priority_index is 0-based
PriorityKey(label) ==
    IF \E i \in 1..Len(MODEL_PRIORITY) : MODEL_PRIORITY[i] = label
    THEN (CHOOSE i \in 1..Len(MODEL_PRIORITY) : MODEL_PRIORITY[i] = label) - 1
    ELSE 999

\* ---------------------------------------------------------- insertion-ordered dicts
\* A Python dict is a sequence of [k, v] records in insertion order.

DictKeys(d) == [i \in 1..Len(d) |-> d[i].k]

DictHas(d, key) == \E i \in 1..Len(d) : d[i].k = key

DictGet(d, key, default) ==
    IF DictHas(d, key)
    THEN d[CHOOSE i \in 1..Len(d) : d[i].k = key].v
    ELSE default

\* A variant that keeps a list of pairs: every assignment adds an item.
DictPutAlwaysAppends(d, key, value) == Append(d, [k |-> key, v |-> value])

\* d[key] = value: in place for a known key, appended for a new one
DictPut(d, key, value) ==
    IF DictHas(d, key)
    THEN [i \in 1..Len(d) |-> IF d[i].k = key THEN [k |-> key, v |-> value] ELSE d[i]]
    ELSE Append(d, [k |-> key, v |-> value])

\* --------------------------------------------------------- build_definition

\* f"{text} ({pos_ai_hu}) ({source_label})" or f"{text} ({source_label})"
MeaningLine(text, pos_ai_hu, source_label) ==
    IF pos_ai_hu # <<>>
    THEN text \o <<32, 40>> \o pos_ai_hu \o <<41, 32, 40>> \o source_label \o <<41>>
    ELSE text \o <<32, 40>> \o source_label \o <<41>>

\* A variant that never consults the set of examples already seen.
ExampleIsNewUnseenIgnored(example, seen) == example # <<>>

\* `example and example not in seen_examples_for_word`
ExampleIsNew(example, seen) == example # <<>> /\ example \notin seen

\* The record's key: (obj.get("word") or obj.get("lemma") or "").strip()
HeadWord(obj) == Strip(Or(obj.word, obj.lemma))

\* A variant without the else branch of `if meaning_hu`: a record without a
\* meaning gets no first line from its headword.
build_definition_meaning_only(entry, seen_examples_for_word, source_label) ==
    LET meaning_hu         == Strip(entry.meaning_hu)
        pos_ai_hu          == Strip(entry.pos_hu)
        example_surface_en == Strip(entry.example_surface_en)
        example_lemma_en   == Strip(entry.example_lemma_en)
        lines0 ==
            IF meaning_hu # <<>>
            THEN <<MeaningLine(meaning_hu, pos_ai_hu, source_label)>>
            ELSE <<>>
        new1   == ExampleIsNew(example_surface_en, seen_examples_for_word)
        lines1 == IF new1 THEN Append(lines0, example_surface_en) ELSE lines0
        seen1  == IF new1 THEN seen_examples_for_word \cup {example_surface_en}
                  ELSE seen_examples_for_word
        new2   == ExampleIsNew(example_lemma_en, seen1)
        lines2 == IF new2 THEN Append(lines1, example_lemma_en) ELSE lines1
        seen2  == IF new2 THEN seen1 \cup {example_lemma_en} ELSE seen1
        fallback == Strip(Or(Or(entry.word, entry.lemma), <<60, 63, 62>>))
        lines  == IF lines2 = <<>> THEN <<fallback>> ELSE lines2
    IN  [block |-> Join(lines, NL), seen |-> seen2]

\* Returns the block and the updated seen_examples_for_word.
build_definition(entry, seen_examples_for_word, source_label) ==
    LET meaning_hu         == Strip(entry.meaning_hu)
        pos_ai_hu          == Strip(entry.pos_hu)
        example_surface_en == Strip(entry.example_surface_en)
        example_lemma_en   == Strip(entry.example_lemma_en)
        word               == HeadWord(entry)
        lines0 ==
            IF meaning_hu # <<>>
            THEN <<MeaningLine(meaning_hu, pos_ai_hu, source_label)>>
            ELSE IF word # <<>>
                 THEN <<MeaningLine(word, pos_ai_hu, source_label)>>
                 ELSE <<>>
        new1   == ExampleIsNew(example_surface_en, seen_examples_for_word)
        lines1 == IF new1 THEN Append(lines0, example_surface_en) ELSE lines0
        seen1  == IF new1 THEN seen_examples_for_word \cup {example_surface_en}
                  ELSE seen_examples_for_word
        new2   == ExampleIsNew(example_lemma_en, seen1)
        lines2 == IF new2 THEN Append(lines1, example_lemma_en) ELSE lines1
        seen2  == IF new2 THEN seen1 \cup {example_lemma_en} ELSE seen1
        fallback == Strip(Or(Or(entry.word, entry.lemma), <<60, 63, 62>>))
        lines  == IF lines2 = <<>> THEN <<fallback>> ELSE lines2
    IN  [block |-> Join(lines, NL), seen |-> seen2]

\* ------------------------------------------------------------------ sorting

\* list.sort / sorted are stable; on short lists they are an insertion sort.
RECURSIVE InsertKey(_, _)
InsertKey(x, s) ==
    IF s = <<>> THEN <<x>>
    ELSE IF stardict_strcmp(x, Head(s)) < 0 THEN <<x>> \o s
    ELSE <<Head(s)>> \o InsertKey(x, Tail(s))

\* A variant that leaves the keys in dict insertion order.
SortedKeysUnsorted(keys) == keys

\* sorted(word_to_def_blocks.keys(), key=cmp_to_key(stardict_strcmp))
RECURSIVE SortedKeys(_)
SortedKeys(keys) ==
    IF keys = <<>> THEN <<>>
    ELSE InsertKey(keys[Len(keys)], SortedKeys(SubSeq(keys, 1, Len(keys) - 1)))

RECURSIVE InsertBlock(_, _)
InsertBlock(pair, s) ==
    IF s = <<>> THEN <<pair>>
    ELSE IF PriorityKey(pair[1]) < PriorityKey(Head(s)[1]) THEN <<pair>> \o s
    ELSE <<Head(s)>> \o InsertBlock(pair, Tail(s))

\* blocks_with_labels.sort(key=lambda pair: priority_index.get(pair[0], 999))
RECURSIVE SortBlocks(_)
SortBlocks(blocks_with_labels) ==
    IF blocks_with_labels = <<>> THEN <<>>
    ELSE InsertBlock(blocks_with_labels[Len(blocks_with_labels)],
                     SortBlocks(SubSeq(blocks_with_labels, 1,
                                       Len(blocks_with_labels) - 1)))

\* "\n\n".join(blocks)
FullDefinition(blocks_with_labels) ==
    Join([i \in 1..Len(blocks_with_labels) |-> blocks_with_labels[i][2]], <<10, 10>>)

\* ------------------------------------------------------- build_dict_and_idx

\* struct.pack(">I", n) for 0 <= n < 2^32
Pack32(n) ==
    <<(n \div 16777216) % 256, (n \div 65536) % 256, (n \div 256) % 256, n % 256>>

\* A variant that leaves the newline after the tag out of the payload.
DefBytesNoNewline(word, definition) ==
    <<60, 107, 62>> \o word \o <<60, 47, 107, 62>> \o definition

\* f"<k>{word}</k>\n{definition}".encode("utf-8")
DefBytes(word, definition) ==
    <<60, 107, 62>> \o word \o <<60, 47, 107, 62>> \o NL \o definition

\* A variant that assigns where the code accumulates: offset = len(def_bytes)
NextOffsetAssigned(off, def_bytes) == Len(def_bytes)

\* offset += len(def_bytes)
NextOffset(off, def_bytes) == off + Len(def_bytes)

\* b"".join(chunks)
RECURSIVE Concat(_)
Concat(chunks) ==
    IF chunks = <<>> THEN <<>> ELSE Head(chunks) \o Concat(Tail(chunks))

\* -------------------------------------------------------------- the inputs

BlankLine == [kind |-> "blank"]

JsonLine(ok, word, lemma, meaning_hu, pos_hu, example_surface_en, example_lemma_en) ==
    [kind |-> "json", ok |-> ok, word |-> word, lemma |-> lemma,
     meaning_hu |-> meaning_hu, pos_hu |-> pos_hu,
     example_surface_en |-> example_surface_en,
     example_lemma_en |-> example_lemma_en]

\* The lines a source file is made of.  "ok" is "True", "False" or "None"
\* (key absent); an absent string field reads as "".
Lines == {
    BlankLine,
    \* a / m (p) / examples x, y
    JsonLine("True", <<97>>, <<97>>, <<109>>, <<112>>, <<120>>, <<121>>),
    \* " a" (stripped to a) / m / examples y, x; no "ok" key
    JsonLine("None", <<32, 97>>, <<>>, <<109>>, <<>>, <<121>>, <<120>>),
    \* "ok": false: a / q (p) / example z
    JsonLine("False", <<97>>, <<97>>, <<113>>, <<112>>, <<122>>, <<>>),
    \* A / no meaning / the same example x twice
    JsonLine("True", <<65>>, <<>>, <<>>, <<112>>, <<120>>, <<120, 32>>),
    \* no word, lemma B / m / no examples
    JsonLine("True", <<>>, <<66>>, <<109>>, <<>>, <<>>, <<>>),
    \* "a\u0000" / m / no examples
    JsonLine("True", <<97, 0>>, <<>>, <<109>>, <<>>, <<>>, <<>>),
    \* neither word nor lemma / m / example z
    JsonLine("True", <<>>, <<32>>, <<109>>, <<>>, <<122>>, <<>>)
}

\* ------------------------------------------------------------------- state

VARIABLES
    sources,                \* the existing (label, lines) source files, in order
    pc,                     \* "load", "build", "done"
    src,                    \* index of the source file being read
    ln,                     \* index of the next line of that file
    word_to_def_blocks,     \* dict: word -> list of <<source_label, block>>
    word_to_seen_examples,  \* dict: word -> set of example sentences
    entries,                \* list of <<word, full_definition>>
    ei,                     \* index of the next entry build_dict_and_idx takes
    offset,
    dict_chunks,
    idx_chunks,
    dict_data,
    idx_data,
    run,                    \* 1 for the first compilation, 2 for a repeated one
    prev_dict_data,         \* the previous compilation's dict_data
    prev_idx_data,          \* the previous compilation's idx_data
    cmp_in,                 \* the headwords handed to stardict_strcmp
    cmp_out,                \* its results
    def_in,                 \* a record and a label handed to build_definition
    def_out,                \* what build_definition and the loader make of them
    pk,                     \* build_dict_and_idx on payloads of a given size
    m,                      \* the locals of each call of main()
    disk                    \* OUTPUT_DIR and the files in it

vars == <<sources, pc, src, ln, word_to_def_blocks, word_to_seen_examples,
          entries, ei, offset, dict_chunks, idx_chunks, dict_data, idx_data,
          run, prev_dict_data, prev_idx_data, cmp_in, cmp_out,
          def_in, def_out, pk, m, disk>>

\* What the compilation of one set of source files never touches.
otherVars == <<def_in, def_out, pk, m, disk>>

compileVars == <<pc, src, ln, word_to_def_blocks, word_to_seen_examples,
                 entries, ei, offset, dict_chunks, idx_chunks, dict_data, idx_data>>

\* The locals of load_entries_from_sources and build_dict_and_idx as a call
\* of main() starts.
StartCompile ==
    /\ pc = "load"
    /\ src = 1
    /\ ln = 1
    /\ word_to_def_blocks = <<>>
    /\ word_to_seen_examples = <<>>
    /\ entries = <<>>
    /\ ei = 1
    /\ offset = 0
    /\ dict_chunks = <<>>
    /\ idx_chunks = <<>>
    /\ dict_data = <<>>
    /\ idx_data = <<>>

\* Nothing but the compilation of one set of source files is going on.
OthersIdle ==
    /\ def_in = <<>>
    /\ def_out = <<>>
    /\ pk = <<>>
    /\ m = <<>>
    /\ disk = <<>>

\* No compilation is being followed step by step.
CompileIdle ==
    /\ sources = << [label |-> GPT5mini, lines |-> <<>>],
                    [label |-> gemma3, lines |-> <<>>] >>
    /\ StartCompile
    /\ run = 1
    /\ prev_dict_data = <<>>
    /\ prev_idx_data = <<>>
    /\ cmp_in = <<>>
    /\ cmp_out = <<>>

Init ==
    /\ \E n1 \in 0..MaxLines : \E n2 \in 0..(MaxLines - n1) :
       \E lines1 \in [1..n1 -> Lines], lines2 \in [1..n2 -> Lines] :
       \E labels \in SourceConfigs :
           sources = << [label |-> labels[1], lines |-> lines1],
                        [label |-> labels[2], lines |-> lines2] >>
    /\ StartCompile
    /\ run = 1
    /\ prev_dict_data = <<>>
    /\ prev_idx_data = <<>>
    /\ cmp_in = <<>>
    /\ cmp_out = <<>>
    /\ OthersIdle

\* ----------------------------------------------- load_entries_from_sources

\* A variant that compares the flag with a string: obj.get("ok") == "false"
OkIsFalseAsString(obj) == FALSE

\* obj.get("ok") is False
OkIsFalse(obj) == obj.ok = "False"

\* A variant that tests "ok" only after build_definition has been called: the
\* examples of a record whose "ok" is false are entered in the seen set.
LoadLineSeenBeforeSkip(acc, obj, source_label) ==
    IF obj.kind = "blank" THEN acc
    ELSE IF HeadWord(obj) = <<>> THEN acc
    ELSE
        LET word == HeadWord(obj)
            seen_examples == DictGet(acc.seen, word, {})
            built == build_definition(obj, seen_examples, source_label)
        IN  [seen   |-> DictPut(acc.seen, word, built.seen),
             blocks |-> IF built.block # <<>> /\ ~OkIsFalse(obj)
                        THEN DictPut(acc.blocks, word,
                                     Append(DictGet(acc.blocks, word, <<>>),
                                            <<source_label, built.block>>))
                        ELSE acc.blocks]

\* The body of `for line in f` on the two dicts: the line is skipped, or its
\* block is appended under its headword.
LoadLine(acc, obj, source_label) ==
    IF obj.kind = "blank" THEN acc
    ELSE IF OkIsFalse(obj) THEN acc
    ELSE IF HeadWord(obj) = <<>> THEN acc
    ELSE
        LET word == HeadWord(obj)
            seen_examples == DictGet(acc.seen, word, {})
            built == build_definition(obj, seen_examples, source_label)
        IN  [seen   |-> DictPut(acc.seen, word, built.seen),
             blocks |-> IF built.block # <<>>
                        THEN DictPut(acc.blocks, word,
                                     Append(DictGet(acc.blocks, word, <<>>),
                                            <<source_label, built.block>>))
                        ELSE acc.blocks]

\* One pass of the body of `for line in f`.
ReadLine ==
    /\ pc = "load"
    /\ src <= Len(sources)
    /\ ln <= Len(sources[src].lines)
    /\ LET acc == LoadLine([blocks |-> word_to_def_blocks,
                            seen   |-> word_to_seen_examples],
                           sources[src].lines[ln], sources[src].label)
       IN  /\ word_to_def_blocks' = acc.blocks
           /\ word_to_seen_examples' = acc.seen
    /\ ln' = ln + 1
    /\ UNCHANGED <<sources, pc, src, entries, ei, offset, dict_chunks, idx_chunks,
                   dict_data, idx_data, run, prev_dict_data, prev_idx_data,
                   cmp_in, cmp_out>>
    /\ UNCHANGED otherVars

\* A variant in which the dict of seen examples is created anew for each
\* source file.
NextSourceForgetsSeen ==
    /\ pc = "load"
    /\ src <= Len(sources)
    /\ ln > Len(sources[src].lines)
    /\ src' = src + 1
    /\ ln' = 1
    /\ word_to_seen_examples' = <<>>
    /\ UNCHANGED <<sources, pc, word_to_def_blocks, entries,
                   ei, offset, dict_chunks, idx_chunks, dict_data, idx_data,
                   run, prev_dict_data, prev_idx_data, cmp_in, cmp_out>>
    /\ UNCHANGED otherVars

\* The file is exhausted: `for jsonl_path, source_label in sources` moves on.
NextSource ==
    /\ pc = "load"
    /\ src <= Len(sources)
    /\ ln > Len(sources[src].lines)
    /\ src' = src + 1
    /\ ln' = 1
    /\ UNCHANGED <<sources, pc, word_to_def_blocks, word_to_seen_examples, entries,
                   ei, offset, dict_chunks, idx_chunks, dict_data, idx_data,
                   run, prev_dict_data, prev_idx_data, cmp_in, cmp_out>>
    /\ UNCHANGED otherVars

\* The entries load_entries_from_sources returns for the dict `blocks`.
SortedEntries(blocks) ==
    LET keys == SortedKeys(DictKeys(blocks))
    IN  [i \in 1..Len(keys) |->
            <<keys[i], FullDefinition(SortBlocks(DictGet(blocks, keys[i], <<>>)))>>]

\* The second loop of load_entries_from_sources: headwords in collation order,
\* each one's blocks sorted in place by model priority and joined.
SortEntries ==
    /\ pc = "load"
    /\ src > Len(sources)
    /\ word_to_def_blocks' =
           [i \in 1..Len(word_to_def_blocks) |->
               [k |-> word_to_def_blocks[i].k,
                v |-> SortBlocks(word_to_def_blocks[i].v)]]
    /\ entries' = SortedEntries(word_to_def_blocks)
    /\ pc' = "build"
    /\ UNCHANGED <<sources, src, ln, word_to_seen_examples, ei, offset, dict_chunks,
                   idx_chunks, dict_data, idx_data, run, prev_dict_data,
                   prev_idx_data, cmp_in, cmp_out>>
    /\ UNCHANGED otherVars

\* ------------------------------------------------------- build_dict_and_idx

\* One pass of the body of `for word, definition in entries`.
BuildEntry ==
    /\ pc = "build"
    /\ ei <= Len(entries)
    /\ LET word       == entries[ei][1]
           definition == entries[ei][2]
           word_bytes == word
           def_bytes  == DefBytes(word, definition)
       IN  /\ idx_chunks' = idx_chunks \o << word_bytes \o <<0>>,
                                             Pack32(offset),
                                             Pack32(Len(def_bytes)) >>
           /\ dict_chunks' = Append(dict_chunks, def_bytes)
           /\ offset' = NextOffset(offset, def_bytes)
    /\ ei' = ei + 1
    /\ UNCHANGED <<sources, pc, src, ln, word_to_def_blocks, word_to_seen_examples,
                   entries, dict_data, idx_data, run, prev_dict_data, prev_idx_data,
                   cmp_in, cmp_out>>
    /\ UNCHANGED otherVars

\* dict_data = b"".join(dict_chunks); idx_data = b"".join(idx_chunks); return
JoinChunks ==
    /\ pc = "build"
    /\ ei > Len(entries)
    /\ dict_data' = Concat(dict_chunks)
    /\ idx_data' = Concat(idx_chunks)
    /\ pc' = "done"
    /\ UNCHANGED <<sources, src, ln, word_to_def_blocks, word_to_seen_examples,
                   entries, ei, offset, dict_chunks, idx_chunks, run,
                   prev_dict_data, prev_idx_data, cmp_in, cmp_out>>
    /\ UNCHANGED otherVars

Next ==
    \/ ReadLine
    \/ NextSource
    \/ SortEntries
    \/ BuildEntry
    \/ JoinChunks

Spec == Init /\ [][Next]_vars

\* ------------------------------------------------------ compiling once more

\* A variant in which the dict of seen examples outlives the call, as a
\* module-level dict would.
RecompileKeepingSeenExamples ==
    /\ pc = "done"
    /\ run = 1
    /\ run' = 2
    /\ prev_dict_data' = dict_data
    /\ prev_idx_data' = idx_data
    /\ pc' = "load"
    /\ src' = 1
    /\ ln' = 1
    /\ word_to_def_blocks' = <<>>
    /\ entries' = <<>>
    /\ ei' = 1
    /\ offset' = 0
    /\ dict_chunks' = <<>>
    /\ idx_chunks' = <<>>
    /\ dict_data' = <<>>
    /\ idx_data' = <<>>
    /\ UNCHANGED <<sources, word_to_seen_examples, cmp_in, cmp_out>>
    /\ UNCHANGED otherVars

\* main() runs again on the same source files: load_entries_from_sources and
\* build_dict_and_idx start from fresh locals; the outcome of the first run
\* is kept aside for comparison.
Recompile ==
    /\ pc = "done"
    /\ run = 1
    /\ run' = 2
    /\ prev_dict_data' = dict_data
    /\ prev_idx_data' = idx_data
    /\ pc' = "load"
    /\ src' = 1
    /\ ln' = 1
    /\ word_to_def_blocks' = <<>>
    /\ word_to_seen_examples' = <<>>
    /\ entries' = <<>>
    /\ ei' = 1
    /\ offset' = 0
    /\ dict_chunks' = <<>>
    /\ idx_chunks' = <<>>
    /\ dict_data' = <<>>
    /\ idx_data' = <<>>
    /\ UNCHANGED <<sources, cmp_in, cmp_out>>
    /\ UNCHANGED otherVars

NextTwice == Next \/ Recompile

SpecTwice == Init /\ [][NextTwice]_vars

\* --------------------------------------------- the comparator on its own

\* "Apple", "apple"
Apple == <<65, 112, 112, 108, 101>>
apple == <<97, 112, 112, 108, 101>>

\* 'A', 'Z', 'a' and a byte of a multi-byte UTF-8 sequence
CmpAlphabet == {65, 90, 97, 195}

\* Every byte string of at most MaxStrLen bytes over the alphabet.
CmpStrings ==
    UNION {[1..n -> CmpAlphabet] : n \in 0..MaxStrLen} \cup {Apple, apple}

InitCmp ==
    /\ cmp_in \in CmpStrings \X CmpStrings \X CmpStrings
    /\ cmp_out = <<>>
    /\ sources = << [label |-> GPT5mini, lines |-> <<>>],
                    [label |-> gemma3, lines |-> <<>>] >>
    /\ StartCompile
    /\ run = 1
    /\ prev_dict_data = <<>>
    /\ prev_idx_data = <<>>
    /\ OthersIdle

\* stardict_strcmp called on the pairs of the three headwords.
Compare ==
    /\ cmp_in # <<>>
    /\ cmp_out = <<>>
    /\ cmp_out' = [r12 |-> stardict_strcmp(cmp_in[1], cmp_in[2]),
                   r21 |-> stardict_strcmp(cmp_in[2], cmp_in[1]),
                   r23 |-> stardict_strcmp(cmp_in[2], cmp_in[3]),
                   r13 |-> stardict_strcmp(cmp_in[1], cmp_in[3]),
                   r11 |-> stardict_strcmp(cmp_in[1], cmp_in[1])]
    /\ UNCHANGED <<sources, compileVars, run, prev_dict_data, prev_idx_data, cmp_in>>
    /\ UNCHANGED otherVars

SpecCmp == InitCmp /\ [][Compare]_vars

\* ------------------------------- build_dict_and_idx on payloads of any size

\* A byte count of any size, held as two 16-bit halves: hi * 65536 + lo.
Wide(hi, lo) == [hi |-> hi, lo |-> lo]

WideAdd(a, b) ==
    LET lo == a.lo + b.lo
    IN  [hi |-> a.hi + b.hi + (lo \div 65536), lo |-> lo % 65536]

\* A variant that masks the value to 32 bits instead of refusing it:
\* struct.pack(">I", n & 0xFFFFFFFF)
PackNeverRaises(n) == FALSE

\* struct.pack(">I", n) raises struct.error unless 0 <= n <= 2^32 - 1.
PackRaises(n) == n.hi > 65535

\* struct.pack(">I", n) for a value it accepts: the four bytes, high first.
Pack32Wide(n) ==
    << (n.hi \div 256) % 256, n.hi % 256, n.lo \div 256, n.lo % 256 >>

\* len(def_bytes) of the entries: a short payload, and payloads of 2^32 - 2,
\* 2^32 - 1 and 2^32 bytes.
PayLens == { Wide(0, 9), Wide(65535, 65534), Wide(65535, 65535), Wide(65536, 0) }

InitPack ==
    /\ \E n \in 0..MaxEntries : \E pay \in [1..n -> PayLens] :
           pk = [pc |-> "build", pay |-> pay, i |-> 1, offset |-> Wide(0, 0),
                 idx_chunks |-> <<>>]
    /\ CompileIdle
    /\ def_in = <<>>
    /\ def_out = <<>>
    /\ m = <<>>
    /\ disk = <<>>

\* One pass of the loop of build_dict_and_idx; the headword is "w".  A
\* struct.error leaves the function, and main(), before any file is opened.
PackEntry ==
    /\ pk.pc = "build"
    /\ pk.i <= Len(pk.pay)
    /\ LET n == pk.pay[pk.i]
           word == pk.idx_chunks \o << <<119, 0>> >>
       IN  IF PackRaises(pk.offset)
           THEN pk' = [pk EXCEPT !.pc = "raised", !.idx_chunks = word]
           ELSE IF PackRaises(n)
           THEN pk' = [pk EXCEPT !.pc = "raised",
                                 !.idx_chunks = word \o <<Pack32Wide(pk.offset)>>]
           ELSE pk' = [pk EXCEPT !.idx_chunks = word \o <<Pack32Wide(pk.offset),
                                                          Pack32Wide(n)>>,
                                 !.offset = WideAdd(pk.offset, n),
                                 !.i = pk.i + 1]
    /\ UNCHANGED <<sources, compileVars, run, prev_dict_data, prev_idx_data,
                   cmp_in, cmp_out, def_in, def_out, m, disk>>

\* The loop is over: the chunks are joined and returned.
PackDone ==
    /\ pk.pc = "build"
    /\ pk.i > Len(pk.pay)
    /\ pk' = [pk EXCEPT !.pc = "done"]
    /\ UNCHANGED <<sources, compileVars, run, prev_dict_data, prev_idx_data,
                   cmp_in, cmp_out, def_in, def_out, m, disk>>

NextPack ==
    \/ PackEntry
    \/ PackDone

SpecPack == InitPack /\ [][NextPack]_vars

\* ------------------------------------------------------------------ main()

\* load_entries_from_sources, first loop, on a list of lines.
RECURSIVE LoadLines(_, _, _)
LoadLines(acc, lines, source_label) ==
    IF lines = <<>> THEN acc
    ELSE LoadLines(LoadLine(acc, Head(lines), source_label), Tail(lines), source_label)

\* load_entries_from_sources, first loop, on a list of source files.
RECURSIVE LoadSources(_, _)
LoadSources(acc, srcs) ==
    IF srcs = <<>> THEN acc
    ELSE LoadSources(LoadLines(acc, Head(srcs).lines, Head(srcs).label), Tail(srcs))

\* build_dict_and_idx from entry i on; acc holds offset and the two chunk
\* lists.
RECURSIVE BuildChunks(_, _, _)
BuildChunks(es, i, acc) ==
    IF i > Len(es) THEN acc
    ELSE LET word_bytes == es[i][1]
             def_bytes  == DefBytes(es[i][1], es[i][2])
         IN  BuildChunks(es, i + 1,
                 [offset      |-> NextOffset(acc.offset, def_bytes),
                  dict_chunks |-> Append(acc.dict_chunks, def_bytes),
                  idx_chunks  |-> acc.idx_chunks \o << word_bytes \o <<0>>,
                                                      Pack32(acc.offset),
                                                      Pack32(Len(def_bytes)) >>])

\* build_dict_and_idx as one call.
build_dict_and_idx(es) ==
    LET acc == BuildChunks(es, 1, [offset |-> 0, dict_chunks |-> <<>>,
                                   idx_chunks |-> <<>>])
    IN  [dict_data |-> Concat(acc.dict_chunks), idx_data |-> Concat(acc.idx_chunks)]

\* f"{n}" for an integer n >= 0
RECURSIVE Decimal(_)
Decimal(n) ==
    IF n < 10 THEN <<48 + n>> ELSE Decimal(n \div 10) \o <<48 + (n % 10)>>

\* %m and %d: two digits, zero-padded
Pad2(n) == <<48 + ((n \div 10) % 10), 48 + (n % 10)>>

\* today.strftime("%Y.%m.%d")
Strftime(today) ==
    Decimal(today.year) \o <<46>> \o Pad2(today.month) \o <<46>> \o Pad2(today.day)

\* "2.4.2"
VERSION == <<50, 46, 52, 46, 50>>

\* "English-Hungarian dictionary"
BOOKNAME ==
    <<69, 110, 103, 108, 105, 115, 104, 45, 72, 117, 110, 103, 97, 114, 105, 97, 110, 32, 100, 105, 99, 116, 105, 111, 110, 97, 114, 121>>

\* "English-Hungarian dictionary built from George Orwell - Animal Farm word
\* list."
DESCRIPTION ==
    BOOKNAME \o
    <<32, 98, 117, 105, 108, 116, 32, 102, 114, 111, 109, 32, 71, 101, 111, 114, 103, 101, 32, 79, 114, 119, 101, 108, 108, 32, 45, 32, 65, 110, 105, 109, 97, 108, 32, 70, 97, 114, 109, 32, 119, 111, 114, 100, 32, 108, 105, 115, 116, 46>>

\* "x"
SAME_TYPE_SEQUENCE == <<120>>

\* "UTF-8"
ENCODING == <<85, 84, 70, 45, 56>>

\* "en-hu"
LANG == <<101, 110, 45, 104, 117>>

\* The lines list of write_ifo.
IfoLines(wordcount, idxfilesize, today) ==
    << \* "StarDict's dict ifo file"
       <<83, 116, 97, 114, 68, 105, 99, 116, 39, 115, 32, 100, 105, 99, 116, 32, 105, 102, 111, 32, 102, 105, 108, 101>>,
       \* "version="
       <<118, 101, 114, 115, 105, 111, 110, 61>> \o VERSION,
       \* "wordcount="
       <<119, 111, 114, 100, 99, 111, 117, 110, 116, 61>> \o Decimal(wordcount),
       \* "idxfilesize="
       <<105, 100, 120, 102, 105, 108, 101, 115, 105, 122, 101, 61>> \o Decimal(idxfilesize),
       \* "bookname="
       <<98, 111, 111, 107, 110, 97, 109, 101, 61>> \o BOOKNAME,
       \* "date="
       <<100, 97, 116, 101, 61>> \o Strftime(today),
       \* "sametypesequence="
       <<115, 97, 109, 101, 116, 121, 112, 101, 115, 101, 113, 117, 101, 110, 99, 101, 61>> \o SAME_TYPE_SEQUENCE,
       \* "description="
       <<100, 101, 115, 99, 114, 105, 112, 116, 105, 111, 110, 61>> \o DESCRIPTION,
       \* "encoding="
       <<101, 110, 99, 111, 100, 105, 110, 103, 61>> \o ENCODING,
       <<>>,
       \* "lang="
       <<108, 97, 110, 103, 61>> \o LANG >>

\* A variant that hands the two numbers over in the other order:
\* write_ifo(ifo_path, len(idx_data), len(entries))
IfoTextNumbersSwapped(wordcount, idxfilesize, today) ==
    Join(IfoLines(idxfilesize, wordcount, today), NL) \o NL

\* text = "\n".join(lines) + "\n"
IfoText(wordcount, idxfilesize, today) ==
    Join(IfoLines(wordcount, idxfilesize, today), NL) \o NL

\* A path that is_file() / exists() denies, and a file with its bytes (for a
\* source file: its lines).
NoFile == [exists |-> FALSE, data |-> <<>>]
File(data) == [exists |-> TRUE, data |-> data]

\* OUTPUT_DIR before the first run.
EmptyDisk == [dir |-> FALSE, dict |-> NoFile, idx |-> NoFile, ifo |-> NoFile,
              dz |-> NoFile]

\* The labels of INPUT_SOURCES, in order.
INPUT_SOURCES == <<GPT5mini, gemma3>>

\* A variant without the is_file() test: existing_sources = INPUT_SOURCES
ExistingSourcesUnfiltered(inputs) ==
    [k \in 1..2 |-> [label |-> INPUT_SOURCES[k], lines |-> inputs[k].data]]

\* existing_sources: the configured sources whose path is a file, in order.
ExistingSources(inputs) ==
    LET found == SelectSeq(<<1, 2>>, LAMBDA k : inputs[k].exists)
    IN  [k \in 1..Len(found) |->
            [label |-> INPUT_SOURCES[found[k]], lines |-> inputs[found[k]].data]]

\* A line that json.loads rejects.
BadLine == [kind |-> "bad"]

\* json.loads raises on some non-blank line of the source files.
JsonRaises(srcs) ==
    \E i \in 1..Len(srcs) : \E j \in 1..Len(srcs[i].lines) :
        srcs[i].lines[j].kind = "bad"

\* Two records of different headwords: a / m (p) / x, y and lemma B / m.
RecA == JsonLine("True", <<97>>, <<97>>, <<109>>, <<112>>, <<120>>, <<121>>)
RecB == JsonLine("True", <<>>, <<66>>, <<109>>, <<>>, <<>>, <<>>)

\* The source files a run may find at the first and at the second configured
\* path.
FilesAt ==
    << {NoFile, File(<<RecA>>), File(<<RecA, BadLine, RecB>>)},
       {NoFile, File(<<RecB>>)} >>

\* The days on which a run may happen.
Dates == { [year |-> 2026, month |-> 1, day |-> 9],
           [year |-> 2026, month |-> 11, day |-> 30] }

\* What a run finds: each configured path missing or a file, and the day.
RunInputs == [inputs : FilesAt[1] \X FilesAt[2], today : Dates]

\* Two runs side by side find different source files.
ConcInputs(p) ==
    IF p = 1
    THEN {c \in RunInputs : c.inputs = <<File(<<RecA>>), NoFile>>}
    ELSE {c \in RunInputs : c.inputs = <<NoFile, File(<<RecB>>)>>}

\* The calls of main() that are followed.
Procs == {1, 2}

\* main() not called: its locals, what it has done so far to OUTPUT_DIR
\* (made_dir, the files it has opened for writing, the files it has written),
\* what it has printed (log, listed) and the exception that ended it (error).
IdleRun ==
    [pc |-> "idle", inputs |-> <<NoFile, NoFile>>,
     today |-> [year |-> 2026, month |-> 1, day |-> 9],
     existing_sources |-> <<>>, entries |-> <<>>, dict_data |-> <<>>,
     idx_data |-> <<>>, made_dir |-> FALSE, opened |-> {}, written |-> {},
     log |-> <<>>, listed |-> {}, error |-> "", dictzip |-> ""]

InitMain ==
    /\ m = [p \in Procs |-> IdleRun]
    /\ disk = EmptyDisk
    /\ CompileIdle
    /\ def_in = <<>>
    /\ def_out = <<>>
    /\ pk = <<>>

\* What main() leaves alone.
mainFrame == <<sources, compileVars, run, prev_dict_data, prev_idx_data,
               cmp_in, cmp_out, def_in, def_out, pk>>

\* The program is started: it finds some source files, on some day.
Invoke(p, choices) ==
    /\ m[p].pc = "idle"
    /\ \E c \in choices :
           m' = [m EXCEPT ![p] = [IdleRun EXCEPT !.pc = "sources",
                                                 !.inputs = c.inputs,
                                                 !.today = c.today]]
    /\ UNCHANGED disk
    /\ UNCHANGED mainFrame

\* The program is started again after a run has ended.
Reinvoke(p, choices) ==
    /\ m[p].pc \in {"finished", "failed"}
    /\ \E c \in choices :
           m' = [m EXCEPT ![p] = [IdleRun EXCEPT !.pc = "sources",
                                                 !.inputs = c.inputs,
                                                 !.today = c.today]]
    /\ UNCHANGED disk
    /\ UNCHANGED mainFrame

\* existing_sources is computed; SystemExit when it is empty.
CheckSources(p) ==
    /\ m[p].pc = "sources"
    /\ LET existing_sources == ExistingSources(m[p].inputs)
       IN  IF existing_sources = <<>>
           THEN m' = [m EXCEPT ![p].pc = "failed", ![p].error = "SystemExit"]
           ELSE m' = [m EXCEPT ![p].pc = "mkdir",
                               ![p].existing_sources = existing_sources]
    /\ UNCHANGED disk
    /\ UNCHANGED mainFrame

\* OUTPUT_DIR.mkdir(parents=True, exist_ok=True): the directory is there
\* afterwards, or the call raises OSError.
MakeOutputDir(p) ==
    /\ m[p].pc = "mkdir"
    /\ \E ok \in BOOLEAN :
           IF ok
           THEN /\ disk' = [disk EXCEPT !.dir = TRUE]
                /\ m' = [m EXCEPT ![p].pc = "compile", ![p].made_dir = TRUE]
           ELSE /\ disk' = disk
                /\ m' = [m EXCEPT ![p].pc = "failed", ![p].error = "OSError"]
    /\ UNCHANGED mainFrame

\* load_entries_from_sources and build_dict_and_idx, which touch no file of
\* OUTPUT_DIR; json.loads has no handler around it.
Compile(p) ==
    /\ m[p].pc = "compile"
    /\ IF JsonRaises(m[p].existing_sources)
       THEN m' = [m EXCEPT ![p].pc = "failed", ![p].error = "JSONDecodeError"]
       ELSE LET es  == SortedEntries(LoadSources([blocks |-> <<>>, seen |-> <<>>],
                                                 m[p].existing_sources).blocks)
                out == build_dict_and_idx(es)
            IN  m' = [m EXCEPT ![p].pc = "write_dict",
                                ![p].entries = es,
                                ![p].dict_data = out.dict_data,
                                ![p].idx_data = out.idx_data]
    /\ UNCHANGED disk
    /\ UNCHANGED mainFrame

\* with path.open("wb") as f: f.write(data) ends in one of three ways: the
\* file holds the data; open() raised and the file is as it was; write()
\* raised after open() had truncated the file.
WriteOutcomes == {"ok", "open_raises", "write_raises"}

\* A variant that opens the file for appending: path.open("ab")
WrittenAppending(old, data, outcome) ==
    IF outcome = "ok" THEN File(old.data \o data)
    ELSE IF outcome = "open_raises" THEN old
    ELSE File(old.data)

Written(old, data, outcome) ==
    IF outcome = "ok" THEN File(data)
    ELSE IF outcome = "open_raises" THEN old
    ELSE File(<<>>)

\* The locals of run p after a write that ended with `outcome`.
AfterWrite(p, name, next_pc, outcome) ==
    IF outcome = "ok"
    THEN [m EXCEPT ![p].pc = next_pc, ![p].opened = @ \cup {name},
                   ![p].written = @ \cup {name}]
    ELSE IF outcome = "write_raises"
    THEN [m EXCEPT ![p].pc = "failed", ![p].error = "OSError",
                   ![p].opened = @ \cup {name}]
    ELSE [m EXCEPT ![p].pc = "failed", ![p].error = "OSError"]

\* dict_path.open("wb"), write(dict_data)
WriteDict(p) ==
    /\ m[p].pc = "write_dict"
    /\ \E outcome \in WriteOutcomes :
           /\ disk' = [disk EXCEPT !.dict = Written(disk.dict, m[p].dict_data, outcome)]
           /\ m' = AfterWrite(p, "dict", "write_idx", outcome)
    /\ UNCHANGED mainFrame

\* idx_path.open("wb"), write(idx_data)
WriteIdx(p) ==
    /\ m[p].pc = "write_idx"
    /\ \E outcome \in WriteOutcomes :
           /\ disk' = [disk EXCEPT !.idx = Written(disk.idx, m[p].idx_data, outcome)]
           /\ m' = AfterWrite(p, "idx", "write_ifo", outcome)
    /\ UNCHANGED mainFrame

\* write_ifo(ifo_path, wordcount=len(entries), idxfilesize=len(idx_data))
WriteIfo(p) ==
    /\ m[p].pc = "write_ifo"
    /\ \E outcome \in WriteOutcomes :
           /\ disk' = [disk EXCEPT !.ifo =
                           Written(disk.ifo,
                                   IfoText(Len(m[p].entries), Len(m[p].idx_data),
                                           m[p].today),
                                   outcome)]
           /\ m' = AfterWrite(p, "ifo", "dictzip", outcome)
    /\ UNCHANGED mainFrame

\* What dictzip makes of the bytes of a file: a gzip member, which starts
\* with 1f 8b.
Compressed(data) == <<31, 139>> \o data

\* How `dictzip -f <dict_path>` can end: the program is not found; it exits
\* with an error and leaves the files alone; it writes the .dict.dz and
\* keeps the .dict; it writes the .dict.dz and removes the .dict.
DictzipOutcomes == {"absent", "error", "kept", "replaced"}

\* A variant without the second handler: CalledProcessError leaves main().
PcAfterDictzipErrorUncaught(outcome) ==
    IF outcome = "error" THEN "failed" ELSE "report"

\* try / except FileNotFoundError / except CalledProcessError: main() goes
\* on to the closing report whatever happened.
PcAfterDictzip(outcome) == "report"

\* subprocess.run(["dictzip", "-f", str(dict_path)], check=True) and its two
\* handlers.  dictzip works on the file it finds at dict_path.
Dictzip(p) ==
    /\ m[p].pc = "dictzip"
    /\ \E outcome \in DictzipOutcomes :
           /\ outcome \in {"kept", "replaced"} => disk.dict.exists
           /\ disk' = IF outcome \in {"absent", "error"} THEN disk
                      ELSE [disk EXCEPT
                               !.dz = File(Compressed(disk.dict.data)),
                               !.dict = IF outcome = "kept" THEN @ ELSE NoFile]
           /\ m' = [m EXCEPT
                       ![p].pc = PcAfterDictzip(outcome),
                       ![p].dictzip = outcome,
                       ![p].error = IF PcAfterDictzip(outcome) = "failed"
                                    THEN "CalledProcessError" ELSE @,
                       ![p].log = IF outcome = "absent"
                                  THEN Append(@, "dictzip not found")
                                  ELSE IF outcome = "error"
                                  THEN Append(@, "dictzip error")
                                  ELSE @]
    /\ UNCHANGED mainFrame

\* The closing report: the three paths, and the .dict.dz if it exists.
Report(p) ==
    /\ m[p].pc = "report"
    /\ m' = [m EXCEPT ![p].pc = "finished",
                      ![p].listed = {"ifo", "idx", "dict"}
                                    \cup (IF disk.dz.exists THEN {"dz"} ELSE {})]
    /\ UNCHANGED disk
    /\ UNCHANGED mainFrame

MainStep(p) ==
    \/ CheckSources(p)
    \/ MakeOutputDir(p)
    \/ Compile(p)
    \/ WriteDict(p)
    \/ WriteIdx(p)
    \/ WriteIfo(p)
    \/ Dictzip(p)
    \/ Report(p)

\* Runs of the program one after another on the same OUTPUT_DIR.
NextMain ==
    \/ Invoke(1, RunInputs)
    \/ Reinvoke(1, RunInputs)
    \/ MainStep(1)

SpecMain == InitMain /\ [][NextMain]_vars

\* Two runs of the program side by side on the same OUTPUT_DIR.
NextConc ==
    \E p \in Procs :
        \/ Invoke(p, ConcInputs(p))
        \/ MainStep(p)

SpecConc == InitMain /\ [][NextConc]_vars

\* -------------------------------------- one record through build_definition

\* The records handed over: word absent, whitespace-only or "a"; lemma absent
\* or "b"; meaning absent, "m" or " m "; part of speech absent, "p" or
\* whitespace-only; examples absent or "x".
DefRecords ==
    { JsonLine(ok, word, lemma, meaning_hu, pos_hu, ex1, ex2) :
        ok \in {"True", "False", "None"},
        word \in {<<>>, <<32>>, <<97>>},
        lemma \in {<<>>, <<98>>},
        meaning_hu \in {<<>>, <<109>>, <<32, 109, 32>>},
        pos_hu \in {<<>>, <<112>>, <<32>>},
        ex1 \in {<<>>, <<120>>},
        ex2 \in {<<>>, <<120>>} }

\* The source labels handed over: a configured one and the empty string.
DefLabels == {GPT5mini, <<>>}

InitDef ==
    /\ def_in \in [obj : DefRecords, label : DefLabels]
    /\ def_out = [applied |-> FALSE, block |-> <<>>, blocks |-> <<>>]
    /\ CompileIdle
    /\ pk = <<>>
    /\ m = <<>>
    /\ disk = <<>>

\* build_definition on the record with no example seen yet, and the body of
\* the loader's loop on the record with both dicts empty.
ApplyDef ==
    /\ ~def_out.applied
    /\ def_out' =
           [applied |-> TRUE,
            block   |-> build_definition(def_in.obj, {}, def_in.label).block,
            blocks  |-> LoadLine([blocks |-> <<>>, seen |-> <<>>],
                                 def_in.obj, def_in.label).blocks]
    /\ UNCHANGED <<sources, compileVars, run, prev_dict_data, prev_idx_data,
                   cmp_in, cmp_out, def_in, pk, m, disk>>

SpecDef == InitDef /\ [][ApplyDef]_vars

\* ---------------------------- records of one headword in several positions

\* Records that share a headword and an example sentence:
SeenLines == {
    \* a / m (p) / x, y
    JsonLine("True", <<97>>, <<97>>, <<109>>, <<112>>, <<120>>, <<121>>),
    \* " a", no "ok" key / no meaning / x
    JsonLine("None", <<32, 97>>, <<>>, <<>>, <<>>, <<120>>, <<>>),
    \* a, "ok" false / q / x
    JsonLine("False", <<97>>, <<97>>, <<113>>, <<>>, <<120>>, <<>>),
    \* neither word nor lemma / m / x
    JsonLine("True", <<32>>, <<>>, <<109>>, <<>>, <<120>>, <<>>),
    \* b / no meaning / no examples
    JsonLine("True", <<98>>, <<>>, <<>>, <<>>, <<>>, <<>>)
}

\* The two configured labels, the file of either one read first.
SeenConfigs == { <<GPT5mini, gemma3>>, <<gemma3, GPT5mini>> }

InitSeen ==
    /\ \E n1 \in 0..MaxLines : \E n2 \in 0..(MaxLines - n1) :
       \E lines1 \in [1..n1 -> SeenLines], lines2 \in [1..n2 -> SeenLines] :
       \E labels \in SeenConfigs :
           sources = << [label |-> labels[1], lines |-> lines1],
                        [label |-> labels[2], lines |-> lines2] >>
    /\ StartCompile
    /\ run = 1
    /\ prev_dict_data = <<>>
    /\ prev_idx_data = <<>>
    /\ cmp_in = <<>>
    /\ cmp_out = <<>>
    /\ OthersIdle

SpecSeen == InitSeen /\ [][Next]_vars

\* ------------------------------------------ main() on payloads of any size

\* What a run on the one record a / m (p) / x, y has left in OUTPUT_DIR.
OldDisk ==
    LET es  == SortedEntries(LoadSources([blocks |-> <<>>, seen |-> <<>>],
                   << [label |-> GPT5mini, lines |-> <<RecA>>] >>).blocks)
        out == build_dict_and_idx(es)
    IN  [dir  |-> TRUE,
         dict |-> File(out.dict_data),
         idx  |-> File(out.idx_data),
         ifo  |-> File(IfoText(Len(es), Len(out.idx_data),
                               [year |-> 2026, month |-> 1, day |-> 9])),
         dz   |-> NoFile]

\* main() is about to call build_dict_and_idx on entries whose payloads have
\* the sizes pk.pay; OUTPUT_DIR exists, empty or with the files of an
\* earlier run.
InitBig ==
    /\ \E n \in 0..MaxEntries : \E pay \in [1..n -> PayLens] :
           pk = [pc |-> "build", pay |-> pay, i |-> 1, offset |-> Wide(0, 0),
                 idx_chunks |-> <<>>]
    /\ m = [p \in Procs |->
               IF p = 1 THEN [IdleRun EXCEPT !.pc = "compile", !.made_dir = TRUE]
               ELSE IdleRun]
    /\ disk \in {[EmptyDisk EXCEPT !.dir = TRUE], OldDisk}
    /\ CompileIdle
    /\ def_in = <<>>
    /\ def_out = <<>>

\* A variant in which the data file is opened before the blob is built:
\* with dict_path.open("wb") as f: f.write(build_dict_and_idx(entries)[0])
BuildRaisesAfterOpen ==
    /\ m[1].pc = "compile"
    /\ pk.pc = "raised"
    /\ m' = [m EXCEPT ![1].pc = "failed", ![1].error = "struct.error",
                      ![1].opened = {"dict"}]
    /\ disk' = [disk EXCEPT !.dict = File(<<>>)]
    /\ UNCHANGED mainFrame

\* struct.error leaves build_dict_and_idx and, with no handler, main().
BuildRaises ==
    /\ m[1].pc = "compile"
    /\ pk.pc = "raised"
    /\ m' = [m EXCEPT ![1].pc = "failed", ![1].error = "struct.error"]
    /\ UNCHANGED disk
    /\ UNCHANGED mainFrame

\* build_dict_and_idx returns.  idx_data is the joined chunks; the data blob
\* is too long to be held byte by byte, the sizes of its payloads stand for
\* it.
BuildReturns ==
    /\ m[1].pc = "compile"
    /\ pk.pc = "done"
    /\ m' = [m EXCEPT ![1].pc = "write_dict",
                      ![1].entries = [k \in 1..Len(pk.pay) |-> << <<119>>, <<>> >>],
                      ![1].idx_data = Concat(pk.idx_chunks),
                      ![1].dict_data =
                          Concat([k \in 1..Len(pk.pay) |-> Pack32Wide(pk.pay[k])])]
    /\ UNCHANGED disk
    /\ UNCHANGED mainFrame

NextBig ==
    \/ PackEntry
    \/ PackDone
    \/ BuildRaises
    \/ BuildReturns
    \/ WriteDict(1)
    \/ WriteIdx(1)
    \/ WriteIfo(1)
    \/ Dictzip(1)
    \/ Report(1)

SpecBig == InitBig /\ [][NextBig]_vars

\* ------------------------------------------- the records of the generators

\* A JSON string and a JSON list of strings, as json.loads returns them.
Str(bytes) == [type |-> "str", v |-> bytes]
List(items) == [type |-> "list", v |-> items]

\* What 500_generate_definitions_openai.py writes as "pos_hu": the name of
\* the part of speech, or "" for a tag without a name.
PosAsString == { Str(<<>>), Str(<<112>>) }

\* What 500_generate_definitions.py writes as "pos_hu": the list of the names
\* of the possible parts of speech, none, one or two.
PosAsList == { List(<<>>), List(<< <<112>> >>), List(<< <<112>>, <<113>> >>) }

\* The records of the two generators: "ok" is true when there is a meaning.
GeneratedRecords(pos_values) ==
    { [kind |-> "json",
       ok |-> IF meaning_hu # <<>> THEN "True" ELSE "False",
       word |-> <<97>>, lemma |-> lemma, meaning_hu |-> meaning_hu,
       pos_hu |-> pos_hu,
       example_surface_en |-> ex1, example_lemma_en |-> ex2] :
        lemma \in {<<97>>, <<98>>},
        meaning_hu \in {<<>>, <<109>>, <<110>>},
        pos_hu \in pos_values,
        ex1 \in {<<>>, <<120>>},
        ex2 \in {<<>>, <<120>>, <<121>>} }

\* (entry.get("pos_hu") or "").strip() raises AttributeError: a non-empty
\* list is truthy and has no strip().
PosStripRaises(entry) == entry.pos_hu.type = "list" /\ entry.pos_hu.v # <<>>

\* entry.get("pos_hu") or "", when strip() can be called on it: the string,
\* or "" for an empty list.
PosOrEmpty(entry) == IF entry.pos_hu.type = "str" THEN entry.pos_hu.v ELSE <<>>

\* A record of the generator of strings read under the first label, or a
\* record of the generator of lists read under the second one.
InitShape ==
    /\ def_in \in [obj : GeneratedRecords(PosAsString), label : {GPT5mini}]
                  \cup [obj : GeneratedRecords(PosAsList), label : {gemma3}]
    /\ def_out = [applied |-> FALSE, error |-> "", blocks |-> <<>>]
    /\ CompileIdle
    /\ pk = <<>>
    /\ m = <<>>
    /\ disk = <<>>

\* The body of the loader's loop on the record, both dicts empty: the record
\* is skipped for "ok" false, or build_definition raises, or it returns.
ApplyShape ==
    /\ ~def_out.applied
    /\ def_out' =
           IF OkIsFalse(def_in.obj)
           THEN [applied |-> TRUE, error |-> "", blocks |-> <<>>]
           ELSE IF PosStripRaises(def_in.obj)
           THEN [applied |-> TRUE, error |-> "AttributeError", blocks |-> <<>>]
           ELSE [applied |-> TRUE, error |-> "",
                 blocks  |-> LoadLine([blocks |-> <<>>, seen |-> <<>>],
                                      [def_in.obj EXCEPT !.pos_hu = PosOrEmpty(def_in.obj)],
                                      def_in.label).blocks]
    /\ UNCHANGED <<sources, compileVars, run, prev_dict_data, prev_idx_data,
                   cmp_in, cmp_out, def_in, pk, m, disk>>

SpecShape == InitShape /\ [][ApplyShape]_vars

\* =================================================================== claims

\* ------------------------------------------------- reading the index records

\* The inverse of struct.pack(">I", n)
Unpack32(b) == b[1] * 16777216 + b[2] * 65536 + b[3] * 256 + b[4]

\* The index records emitted so far: three chunks each.
NumIdxRecords == Len(idx_chunks) \div 3

IdxHeadword(i) ==
    LET c == idx_chunks[3 * i - 2] IN SubSeq(c, 1, Len(c) - 1)

IdxOffset(i) == Unpack32(idx_chunks[3 * i - 1])

IdxLength(i) == Unpack32(idx_chunks[3 * i])

RECURSIVE SumLengths(_)
SumLengths(n) == IF n = 0 THEN 0 ELSE IdxLength(n) + SumLengths(n - 1)

\* C1: the offset of the first index record is 0, every next offset is the
\* previous offset plus the previous length, and the lengths add up to the
\* size of the data blob: the index covers [0, len(dict_data)) without gap or
\* overlap.
C1_IndexCoversData ==
    /\ NumIdxRecords > 0 => IdxOffset(1) = 0
    /\ \A i \in 1..(NumIdxRecords - 1) :
           IdxOffset(i + 1) = IdxOffset(i) + IdxLength(i)
    /\ SumLengths(NumIdxRecords) = Len(Concat(dict_chunks))
    /\ pc = "done" => SumLengths(NumIdxRecords) = Len(dict_data)

\* Three records were emitted, the third at a non-zero offset past the second.
C1_Witness ==
    /\ pc = "done"
    /\ NumIdxRecords = 3
    /\ IdxOffset(3) > IdxOffset(2)
    /\ IdxOffset(2) > 0

\* C2: the headwords of the index records are in collation order, any earlier
\* one comparing <= 0 with any later one under stardict_strcmp, and
\* build_dict_and_idx emits them in exactly the order of the entries that
\* load_entries_from_sources returned.
C2_IndexInCollationOrder ==
    /\ \A i \in 1..NumIdxRecords : \A j \in (i + 1)..NumIdxRecords :
           stardict_strcmp(IdxHeadword(i), IdxHeadword(j)) <= 0
    /\ NumIdxRecords <= Len(entries)
    /\ \A i \in 1..NumIdxRecords : IdxHeadword(i) = entries[i][1]
    /\ pc = "done" => NumIdxRecords = Len(entries)

\* Three headwords were indexed that the input files met in another order.
C2_Witness ==
    /\ pc = "done"
    /\ NumIdxRecords = 3
    /\ DictKeys(word_to_def_blocks) # [i \in 1..NumIdxRecords |-> IdxHeadword(i)]

\* C9: for every index record, the bytes of the data blob from its offset on,
\* as many as its length, are "<k>" + headword + "</k>" + "\n" + definition,
\* the headword being the one the same index record stores.
C9_PayloadAtOffset ==
    pc = "done" =>
        \A i \in 1..NumIdxRecords :
            SubSeq(dict_data, IdxOffset(i) + 1, IdxOffset(i) + IdxLength(i))
                = <<60, 107, 62>> \o IdxHeadword(i) \o <<60, 47, 107, 62, 10>>
                      \o entries[i][2]

\* Two payloads lie in the data blob, the second one with a definition of
\* several blocks.
C9_Witness ==
    /\ pc = "done"
    /\ NumIdxRecords >= 2
    /\ IdxOffset(2) > 0
    /\ \E i \in 1..Len(word_to_def_blocks) :
           /\ word_to_def_blocks[i].k = IdxHeadword(2)
           /\ Len(word_to_def_blocks[i].v) >= 2

\* ------------------------------------------------- the two-level rule, stated

\* Only bytes 'A'..'Z' lowered, every other byte unchanged.
RuleFold(s) == [i \in 1..Len(s) |-> IF s[i] \in 65..90 THEN s[i] + 32 ELSE s[i]]

\* a sorts before b as byte strings: a is a proper prefix of b, or the first
\* byte in which they differ is smaller in a.
RuleBefore(a, b) ==
    \E k \in 1..Len(b) :
        /\ k <= Len(a) + 1
        /\ \A j \in 1..(k - 1) : a[j] = b[j]
        /\ k = Len(a) + 1 \/ a[k] < b[k]

RuleSign(a, b) == IF RuleBefore(a, b) THEN -1 ELSE IF RuleBefore(b, a) THEN 1 ELSE 0

RuleCollate(s1, s2) ==
    IF RuleFold(s1) # RuleFold(s2)
    THEN RuleSign(RuleFold(s1), RuleFold(s2))
    ELSE RuleSign(s1, s2)

\* C3: stardict_strcmp returns the sign of comparing the ASCII-case-folded
\* byte strings when these differ and the sign of comparing the original byte
\* strings otherwise; it returns 0 only for equal headwords, is antisymmetric
\* and transitive, and puts "Apple" before "apple".
C3_StrictTotalOrder ==
    cmp_out # <<>> =>
        /\ cmp_out.r12 = RuleCollate(cmp_in[1], cmp_in[2])
        /\ cmp_out.r21 = RuleCollate(cmp_in[2], cmp_in[1])
        /\ cmp_out.r23 = RuleCollate(cmp_in[2], cmp_in[3])
        /\ cmp_out.r13 = RuleCollate(cmp_in[1], cmp_in[3])
        /\ cmp_out.r11 = 0
        /\ (cmp_out.r12 = 0) <=> (cmp_in[1] = cmp_in[2])
        /\ cmp_out.r21 = 0 - cmp_out.r12
        /\ (cmp_out.r12 < 0 /\ cmp_out.r23 < 0) => cmp_out.r13 < 0
        /\ (cmp_in[1] = Apple /\ cmp_in[2] = apple) => cmp_out.r12 = -1

\* "Apple" came out before "apple" on the tie-break, "apple" before a headword
\* with a non-ASCII byte, and "Apple" before that one too.
C3_Witness ==
    /\ cmp_out # <<>>
    /\ cmp_in[1] = Apple
    /\ cmp_in[2] = apple
    /\ cmp_in[3] = <<97, 195>>
    /\ cmp_out.r12 = -1
    /\ cmp_out.r23 = -1
    /\ cmp_out.r13 = -1

\* ------------------------------------------------ reading the input records

\* The places <<source, line>> of all input lines.
Places == {p \in (1..Len(sources)) \X (1..MaxLines + 1) : p[2] <= Len(sources[p[1]].lines)}

LineAt(p) == sources[p[1]].lines[p[2]]

\* A record that is rendered: a JSON line whose "ok" is not false and whose
\* headword is not blank.
Rendered(p) ==
    /\ LineAt(p).kind = "json"
    /\ LineAt(p).ok # "False"
    /\ HeadWord(LineAt(p)) # <<>>

\* The rendered records of headword h.
Contributing(h) == {p \in Places : Rendered(p) /\ HeadWord(LineAt(p)) = h}

\* The example sentences the rendered records of headword h carry.
ExamplesOf(h) ==
    {ex \in UNION {{Strip(LineAt(p).example_surface_en),
                    Strip(LineAt(p).example_lemma_en)} : p \in Contributing(h)} :
        ex # <<>>}

\* text.split("\n")
RECURSIVE SplitLines(_)
SplitLines(text) ==
    IF \E i \in 1..Len(text) : text[i] = 10
    THEN LET i == CHOOSE i \in 1..Len(text) :
                      text[i] = 10 /\ \A j \in 1..(i - 1) : text[j] # 10
         IN  <<SubSeq(text, 1, i - 1)>> \o SplitLines(SubSeq(text, i + 1, Len(text)))
    ELSE <<text>>

Occurrences(lines, x) == Cardinality({i \in 1..Len(lines) : lines[i] = x})

\* C4: in the definition text of a headword, every example sentence of its
\* rendered records is one line, exactly once, however many records of
\* whichever source carried it as example_surface or as example_lemma.
C4_ExampleOnce ==
    pc = "done" =>
        \A i \in 1..Len(entries) :
            \A ex \in ExamplesOf(entries[i][1]) :
                Occurrences(SplitLines(entries[i][2]), ex) = 1

\* A headword was compiled whose example sentence came from a record of the
\* first file as example_surface and from one of the second as example_lemma.
C4_Witness ==
    /\ pc = "done"
    /\ \E p \in Places, q \in Places :
           /\ p[1] = 1 /\ q[1] = 2
           /\ Rendered(p) /\ Rendered(q)
           /\ HeadWord(LineAt(p)) = HeadWord(LineAt(q))
           /\ Strip(LineAt(p).example_surface_en) # <<>>
           /\ Strip(LineAt(p).example_surface_en) = Strip(LineAt(q).example_lemma_en)
           /\ \E i \in 1..Len(entries) : entries[i][1] = HeadWord(LineAt(p))

\* ------------------------------------------------------- the order of blocks

\* The blocks of one source label, in the order they have in `blocks`.
BlocksOf(blocks, label) ==
    LET FromLabel(pair) == pair[1] = label IN SelectSeq(blocks, FromLabel)

\* The blocks of the labels MODEL_PRIORITY does not list, in their order.
UnrankedBlocks(blocks) ==
    LET Unranked(pair) == \A i \in 1..Len(MODEL_PRIORITY) : MODEL_PRIORITY[i] # pair[1]
    IN  SelectSeq(blocks, Unranked)

\* Priority order: the blocks of the first listed label as they were met,
\* then those of the next one, ..., then the unranked ones as they were met.
InPriorityOrder(blocks) ==
    Concat([i \in 1..Len(MODEL_PRIORITY) |-> BlocksOf(blocks, MODEL_PRIORITY[i])])
        \o UnrankedBlocks(blocks)

\* C5: when load_entries_from_sources builds the entries, the blocks of every
\* headword are put in the order of their source label's rank in
\* MODEL_PRIORITY, unranked sources after all ranked ones, blocks of equal
\* rank in the order they were appended while reading; the definition text is
\* these blocks, in this order, joined by a blank line.  The labels of the two
\* files are any two of the three, in any order.
C5_BlocksByPriority ==
    [][ (pc = "load" /\ pc' = "build") =>
            /\ \A i \in 1..Len(word_to_def_blocks) :
                   /\ word_to_def_blocks'[i].k = word_to_def_blocks[i].k
                   /\ word_to_def_blocks'[i].v = InPriorityOrder(word_to_def_blocks[i].v)
            /\ Len(entries') = Len(word_to_def_blocks)
            /\ \A e \in 1..Len(entries') :
                   entries'[e][2] =
                       LET blocks == InPriorityOrder(
                                         DictGet(word_to_def_blocks, entries'[e][1], <<>>))
                       IN  Join([b \in 1..Len(blocks) |-> blocks[b][2]], <<10, 10>>)
      ]_vars

\* The first file has an unranked label, the second a ranked one; a headword
\* has two different blocks of the first and, before them, one of the second.
C5_Witness ==
    /\ pc = "done"
    /\ sources[1].label = OtherLabel
    /\ sources[2].label = gemma3
    /\ \E i \in 1..Len(word_to_def_blocks) :
           LET v == word_to_def_blocks[i].v
           IN  /\ Len(v) = 3
               /\ v[1][1] = gemma3
               /\ v[2][1] = OtherLabel
               /\ v[3][1] = OtherLabel
               /\ v[2] # v[3]

\* --------------------------------------------------- records with "ok": false

\* The source files with the records whose "ok" is false struck out.
WithoutInvalid(srcs) ==
    LET Kept(line) == line.kind = "blank" \/ line.ok # "False"
    IN  [i \in 1..Len(srcs) |->
            [label |-> srcs[i].label, lines |-> SelectSeq(srcs[i].lines, Kept)]]

Contains(bytes, b) == \E i \in 1..Len(bytes) : bytes[i] = b

\* C6: a record whose "ok" is false contributes nothing: the entries are
\* those of the same files without such records, and the meaning ("q") and
\* the example sentence ("z") that only such a record carries are in neither
\* the data blob nor the index.
C6_InvalidContributeNothing ==
    pc = "done" =>
        /\ entries = SortedEntries(
                         LoadSources([blocks |-> <<>>, seen |-> <<>>],
                                     WithoutInvalid(sources)).blocks)
        /\ ~Contains(dict_data, 113) /\ ~Contains(dict_data, 122)
        /\ ~Contains(idx_data, 113) /\ ~Contains(idx_data, 122)

\* A record with "ok": false stood between two rendered records of its own
\* headword, in the same file.
C6_Witness ==
    /\ pc = "done"
    /\ \E p \in Places :
           /\ LineAt(p).kind = "json"
           /\ LineAt(p).ok = "False"
           /\ p[2] = 2
           /\ Len(sources[p[1]].lines) = 3
           /\ Rendered(<<p[1], 1>>) /\ Rendered(<<p[1], 3>>)
           /\ HeadWord(LineAt(<<p[1], 1>>)) = HeadWord(LineAt(p))
           /\ HeadWord(LineAt(<<p[1], 3>>)) = HeadWord(LineAt(p))

\* -------------------------------------------------------- unique headwords

\* The headwords of the rendered records.
RenderedHeadwords == {HeadWord(LineAt(p)) : p \in {q \in Places : Rendered(q)}}

\* C7: after a compilation no two index records carry the same headword;
\* every headword of a rendered record has exactly one index record and one
\* payload in the data blob, no other headword has one, and the definition
\* text holds one block (blocks being separated by a blank line) for each
\* rendered record of that headword, whichever file it came from.
C7_OneEntryPerHeadword ==
    pc = "done" =>
        /\ \A i \in 1..NumIdxRecords : \A j \in 1..NumIdxRecords :
               IdxHeadword(i) = IdxHeadword(j) => i = j
        /\ {IdxHeadword(i) : i \in 1..NumIdxRecords} = RenderedHeadwords
        /\ Len(dict_chunks) = NumIdxRecords
        /\ Len(entries) = NumIdxRecords
        /\ \A i \in 1..NumIdxRecords :
               Occurrences(SplitLines(entries[i][2]), <<>>) + 1
                   = Cardinality(Contributing(IdxHeadword(i)))

\* A headword got one index record from three rendered records spread over
\* both files.
C7_Witness ==
    /\ pc = "done"
    /\ NumIdxRecords = 1
    /\ Cardinality(Contributing(IdxHeadword(1))) = 3
    /\ \E p \in Contributing(IdxHeadword(1)) : p[1] = 1
    /\ \E p \in Contributing(IdxHeadword(1)) : p[1] = 2

\* ------------------------------------------------------------- determinism

FirstNul(bytes) ==
    IF Contains(bytes, 0)
    THEN CHOOSE i \in 1..Len(bytes) : bytes[i] = 0 /\ \A j \in 1..(i - 1) : bytes[j] # 0
    ELSE 0

\* What a reader of the index file recovers: each record read up to its first
\* 0x00 byte, then four bytes of offset and four of length.  A file that ends
\* inside a record gives the record <<<<>>, -1, -1>> and ends the reading.
RECURSIVE ParseIdx(_)
ParseIdx(bytes) ==
    IF bytes = <<>> THEN <<>>
    ELSE LET z == FirstNul(bytes)
         IN  IF z = 0 \/ Len(bytes) < z + 8 THEN << <<<<>>, -1, -1>> >>
             ELSE << << SubSeq(bytes, 1, z - 1),
                        Unpack32(SubSeq(bytes, z + 1, z + 4)),
                        Unpack32(SubSeq(bytes, z + 5, z + 8)) >> >>
                  \o ParseIdx(SubSeq(bytes, z + 9, Len(bytes)))

\* The records build_dict_and_idx wrote: <<headword, offset, length>>.
WrittenRecords ==
    [i \in 1..NumIdxRecords |-> <<IdxHeadword(i), IdxOffset(i), IdxLength(i)>>]

\* The index file is, record after record, the headword's bytes, one 0x00
\* byte, the offset and the length as four big-endian bytes each.
IdxLayout ==
    pc = "done" =>
        idx_data = Concat([i \in 1..Len(entries) |->
                              entries[i][1] \o <<0>>
                                  \o Pack32(IdxOffset(i)) \o Pack32(IdxLength(i))])

\* C10: every index record is the headword's UTF-8 bytes, a 0x00 byte, the
\* big-endian offset and the big-endian length; no headword of an emitted
\* record holds a 0x00 byte, and parsing the index file at the first 0x00
\* byte of each record recovers the records that were written.
C10_IndexParsesBack ==
    pc = "done" =>
        /\ idx_data = Concat([i \in 1..Len(entries) |->
                                 entries[i][1] \o <<0>>
                                     \o Pack32(IdxOffset(i)) \o Pack32(IdxLength(i))])
        /\ \A i \in 1..NumIdxRecords : ~Contains(IdxHeadword(i), 0)
        /\ ParseIdx(idx_data) = WrittenRecords

\* What does hold: the layout always, and the reading back whenever no
\* headword of the input holds a 0x00 byte.
IdxParsesBackWithoutNul ==
    pc = "done" =>
        /\ idx_data = Concat([i \in 1..Len(entries) |->
                                 entries[i][1] \o <<0>>
                                     \o Pack32(IdxOffset(i)) \o Pack32(IdxLength(i))])
        /\ (\A h \in RenderedHeadwords : ~Contains(h, 0)) =>
               ParseIdx(idx_data) = WrittenRecords
        /\ (\E h \in RenderedHeadwords : Contains(h, 0)) =>
               ParseIdx(idx_data) # WrittenRecords


\* ------------------------------------------------- payloads beyond 32 bits

\* The inverse of Pack32Wide
UnpackWide(b) == Wide(b[1] * 256 + b[2], b[3] * 256 + b[4])

\* The byte count is 2^32 or more: its upper half needs more than 16 bits.
ExceedsUint32(n) == n.hi \div 65536 >= 1

\* The length field written for the k-th entry.
PackedLength(k) == pk.idx_chunks[3 * k]

\* C11: a payload longer than 2^32 - 1 bytes stops the compiler with an error
\* at that entry: the loop never gets past such an entry and never returns,
\* and every length field it has written decodes to the true payload length.
C11_OversizePayloadIsFatal ==
    /\ \A k \in 1..(pk.i - 1) :
           /\ ~ExceedsUint32(pk.pay[k])
           /\ UnpackWide(PackedLength(k)) = pk.pay[k]
    /\ Len(pk.idx_chunks) < 3 * pk.i
    /\ pk.pc = "done" => \A k \in 1..Len(pk.pay) : ~ExceedsUint32(pk.pay[k])

\* A payload of 2^32 bytes follows an entry that was packed: the error is
\* raised and no length field is written for it.
C11_Witness ==
    /\ pk.pc = "raised"
    /\ pk.i = 2
    /\ pk.pay[2] = Wide(65536, 0)
    /\ UnpackWide(PackedLength(1)) = Wide(65535, 65535)
    /\ Len(pk.idx_chunks) = 5


\* ------------------------------------------------- the files of OUTPUT_DIR

\* The three files as the run r writes them.
OwnDict(r) == File(r.dict_data)
OwnIdx(r) == File(r.idx_data)
OwnIfo(r) == File(IfoText(Len(r.entries), Len(r.idx_data), r.today))

\* The data file is the one the run r wrote, or dictzip has replaced that
\* file by its compressed form.
DictFrom(r) ==
    \/ disk.dict = OwnDict(r)
    \/ ~disk.dict.exists /\ disk.dz = File(Compressed(r.dict_data))

\* The three files all come from the run r.
TripleFrom(r) == DictFrom(r) /\ disk.idx = OwnIdx(r) /\ disk.ifo = OwnIfo(r)

\* C12: a run that completes has written all three files and they are its
\* own; a run that fails has opened none of the three files for writing, so
\* that OUTPUT_DIR never holds some files of the failed run next to older
\* ones, or a truncated file.
C12_AllOrNothing ==
    /\ m[1].pc = "finished" =>
           m[1].written = {"dict", "idx", "ifo"} /\ TripleFrom(m[1])
    /\ m[1].pc = "failed" => m[1].opened = {}

\* C13: dictzip is started only when the run has written the data, index and
\* metadata files; and when dictzip is not found or exits with an error, the
\* run goes on to its closing report without an exception, the condition has
\* been printed, and the three files hold exactly what the run wrote.
C13_CompressionFailureIsHarmless ==
    /\ m[1].pc = "dictzip" => m[1].written = {"dict", "idx", "ifo"}
    /\ m[1].dictzip \in {"absent", "error"} =>
           /\ m[1].pc \in {"report", "finished"}
           /\ m[1].error = ""
           /\ m[1].log = << IF m[1].dictzip = "absent" THEN "dictzip not found"
                            ELSE "dictzip error" >>
           /\ disk.dict = OwnDict(m[1])
           /\ disk.idx = OwnIdx(m[1])
           /\ disk.ifo = OwnIfo(m[1])

\* A run has ended normally after dictzip exited with an error, with a
\* non-empty data file on disk.
C13_Witness ==
    /\ m[1].pc = "finished"
    /\ m[1].dictzip = "error"
    /\ disk.dict.exists
    /\ disk.dict.data # <<>>
    /\ m[1].listed = {"ifo", "idx", "dict"}

\* The source files of the configured paths that exist, in configured order,
\* case by case.
ExpectedSources(inputs) ==
    IF inputs[1].exists /\ inputs[2].exists
    THEN << [label |-> GPT5mini, lines |-> inputs[1].data],
            [label |-> gemma3, lines |-> inputs[2].data] >>
    ELSE IF inputs[1].exists THEN << [label |-> GPT5mini, lines |-> inputs[1].data] >>
    ELSE IF inputs[2].exists THEN << [label |-> gemma3, lines |-> inputs[2].data] >>
    ELSE <<>>

\* The run has got past load_entries_from_sources and build_dict_and_idx.
Compiled(r) == r.pc \in {"write_dict", "write_idx", "write_ifo", "dictzip",
                        "report", "finished"} \/ r.opened # {}

\* C14: when no configured source file exists, the run ends with SystemExit
\* without having called mkdir and without having opened an output file; when
\* one exists, the run does not end that way, and what it compiles is the
\* existing source files in configured order.
C14_NoInputIsFatalBeforeOutput ==
    LET r == m[1]
        none == ~r.inputs[1].exists /\ ~r.inputs[2].exists
    IN  r.pc \notin {"idle", "sources"} =>
            /\ none => /\ r.pc = "failed"
                       /\ r.error = "SystemExit"
                       /\ ~r.made_dir
                       /\ r.opened = {}
            /\ ~none => /\ r.error # "SystemExit"
                        /\ r.existing_sources = ExpectedSources(r.inputs)
                        /\ Compiled(r) =>
                               r.entries = SortedEntries(
                                   LoadSources([blocks |-> <<>>, seen |-> <<>>],
                                               ExpectedSources(r.inputs)).blocks)

\* A second run finds no source file: it has ended with SystemExit and left
\* the files of the run before it alone.
C14_Witness ==
    /\ m[1].pc = "failed"
    /\ m[1].error = "SystemExit"
    /\ ~m[1].inputs[1].exists
    /\ ~m[1].inputs[2].exists
    /\ disk.dir
    /\ disk.idx.exists

\* The source files without the lines that json.loads rejects.
WithoutBadLines(srcs) ==
    [i \in 1..Len(srcs) |->
        [label |-> srcs[i].label,
         lines |-> SelectSeq(srcs[i].lines, LAMBDA line : line.kind # "bad")]]

\* C15: a line that is not valid JSON does not end the run, and the run
\* compiles every record of the other lines, those of the same file included.
C15_MalformedLineIsSkipped ==
    LET r == m[1]
    IN  /\ r.error # "JSONDecodeError"
        /\ Compiled(r) =>
               r.entries = SortedEntries(
                   LoadSources([blocks |-> <<>>, seen |-> <<>>],
                               WithoutBadLines(ExpectedSources(r.inputs))).blocks)

\* The line starts with the prefix.
StartsWith(line, prefix) ==
    Len(line) >= Len(prefix) /\ SubSeq(line, 1, Len(prefix)) = prefix

\* The number a string of decimal digits stands for; -1 for any other string.
RECURSIVE ParseDecimal(_)
ParseDecimal(digits) ==
    IF digits = <<>> THEN -1
    ELSE LET d == digits[Len(digits)]
         IN  IF d < 48 \/ d > 57 THEN -1
             ELSE IF Len(digits) = 1 THEN d - 48
             ELSE IF ParseDecimal(SubSeq(digits, 1, Len(digits) - 1)) = -1 THEN -1
             ELSE 10 * ParseDecimal(SubSeq(digits, 1, Len(digits) - 1)) + (d - 48)

\* The header line and the keys of the metadata file, in the order claimed.
IfoKeys ==
    << \* "StarDict's dict ifo file"
       <<83, 116, 97, 114, 68, 105, 99, 116, 39, 115, 32, 100, 105, 99, 116, 32, 105, 102, 111, 32, 102, 105, 108, 101>>,
       \* "version=", "wordcount=", "idxfilesize=", "bookname=", "date="
       <<118, 101, 114, 115, 105, 111, 110, 61>>,
       <<119, 111, 114, 100, 99, 111, 117, 110, 116, 61>>,
       <<105, 100, 120, 102, 105, 108, 101, 115, 105, 122, 101, 61>>,
       <<98, 111, 111, 107, 110, 97, 109, 101, 61>>,
       <<100, 97, 116, 101, 61>>,
       \* "sametypesequence=", "description=", "encoding=", "lang="
       <<115, 97, 109, 101, 116, 121, 112, 101, 115, 101, 113, 117, 101, 110, 99, 101, 61>>,
       <<100, 101, 115, 99, 114, 105, 112, 116, 105, 111, 110, 61>>,
       <<101, 110, 99, 111, 100, 105, 110, 103, 61>>,
       <<108, 97, 110, 103, 61>> >>

\* The non-empty lines of the metadata file on disk.
IfoFileLines == SelectSeq(SplitLines(disk.ifo.data), LAMBDA line : line # <<>>)

\* The value of the k-th line: what follows its key.
IfoValue(k) == SubSeq(IfoFileLines[k], Len(IfoKeys[k]) + 1, Len(IfoFileLines[k]))

\* C16: once a run has written the metadata file, its wordcount is the number
\* of records a reader finds in the index file, its idxfilesize is the size of
\* the index file in bytes, and its lines are, in this order: the header,
\* version, wordcount, idxfilesize, bookname, date, sametypesequence,
\* description, encoding, lang.
C16_MetadataMatchesIndex ==
    m[1].pc \in {"dictzip", "report", "finished"} =>
        /\ Len(IfoFileLines) = Len(IfoKeys)
        /\ \A k \in 1..Len(IfoKeys) : StartsWith(IfoFileLines[k], IfoKeys[k])
        /\ IfoFileLines[1] = IfoKeys[1]
        /\ ParseDecimal(IfoValue(3)) = Len(ParseIdx(disk.idx.data))
        /\ ParseDecimal(IfoValue(4)) = Len(disk.idx.data)

\* A run of two entries has ended: the index file holds 20 bytes, the
\* metadata file says wordcount=2 and idxfilesize=20.
C16_Witness ==
    /\ m[1].pc = "finished"
    /\ Len(ParseIdx(disk.idx.data)) = 2
    /\ Len(disk.idx.data) = 20
    /\ IfoValue(3) = <<50>>
    /\ IfoValue(4) = <<50, 48>>

\* C17: when two runs on the same OUTPUT_DIR, started on different source
\* files, have both ended normally, the index, data and metadata files all
\* come from one of them.
C17_ConcurrentRunsLeaveOneTriple ==
    (m[1].pc = "finished" /\ m[2].pc = "finished") =>
        TripleFrom(m[1]) \/ TripleFrom(m[2])

\* The three files as they follow from what the run r found and from nothing
\* else.
EntriesOf(r) ==
    SortedEntries(LoadSources([blocks |-> <<>>, seen |-> <<>>],
                              ExpectedSources(r.inputs)).blocks)

\* C18: when a run ends normally, whatever runs came before it, the index and
\* metadata files are what follows from the source files and the day of this
\* run, and so is the data file, unless dictzip has replaced it by its
\* compressed form.
C18_RunRegeneratesFiles ==
    m[1].pc = "finished" =>
        LET r   == m[1]
            out == build_dict_and_idx(EntriesOf(r))
        IN  /\ disk.idx = File(out.idx_data)
            /\ disk.ifo = File(IfoText(Len(EntriesOf(r)), Len(out.idx_data), r.today))
            /\ \/ disk.dict = File(out.dict_data)
               \/ r.dictzip = "replaced" /\ ~disk.dict.exists

\* A run has ended normally in a directory where an earlier run on other
\* source files had left its compressed data file: the three files are this
\* run's, the compressed file is not.
C18_Witness ==
    /\ m[1].pc = "finished"
    /\ m[1].dictzip = "absent"
    /\ disk.dz.exists
    /\ disk.dz.data # Compressed(m[1].dict_data)
    /\ disk.dict = OwnDict(m[1])
    /\ disk.idx = OwnIdx(m[1])
    /\ disk.ifo = OwnIfo(m[1])


\* ------------------------------------------------------- the meaning line

\* " (field)" for a field that is there, nothing for a blank one.
Parenthesized(field) ==
    IF field = <<>> THEN <<>> ELSE <<32, 40>> \o field \o <<41>>

\* The first line of the block build_definition returned.
FirstLine == Head(SplitLines(def_out.block))

\* C19: for a record with a meaning, the first line of its block is the
\* meaning, then the part of speech in parentheses unless it is blank, then
\* the source label in parentheses unless it is blank.
C19_MeaningLineOmitsBlankFields ==
    (def_out.applied /\ Strip(def_in.obj.meaning_hu) # <<>>) =>
        FirstLine = Strip(def_in.obj.meaning_hu)
                        \o Parenthesized(Strip(def_in.obj.pos_hu))
                        \o Parenthesized(Strip(def_in.label))

\* With a label that is not blank the line is as claimed, the part of speech
\* left out when blank.
MeaningLineWithLabel ==
    (def_out.applied /\ Strip(def_in.obj.meaning_hu) # <<>> /\ def_in.label # <<>>) =>
        FirstLine = Strip(def_in.obj.meaning_hu)
                        \o Parenthesized(Strip(def_in.obj.pos_hu))
                        \o Parenthesized(def_in.label)

\* C20: the headword of a record is its word, or its lemma when the word is
\* blank (absent, empty or whitespace-only); a record whose "ok" is not false
\* is skipped only when both are blank, and is otherwise compiled under that
\* headword.
C20_LemmaWhenWordBlank ==
    (def_out.applied /\ def_in.obj.ok # "False") =>
        LET display == IF Strip(def_in.obj.word) # <<>>
                       THEN Strip(def_in.obj.word)
                       ELSE Strip(def_in.obj.lemma)
        IN  IF display = <<>> THEN def_out.blocks = <<>>
            ELSE /\ Len(def_out.blocks) = 1
                 /\ def_out.blocks[1].k = display

\* The lemma is taken when the word is absent or empty.
LemmaWhenWordEmpty ==
    (def_out.applied /\ def_in.obj.ok # "False" /\ def_in.obj.word = <<>>) =>
        IF def_in.obj.lemma = <<>> THEN def_out.blocks = <<>>
        ELSE Len(def_out.blocks) = 1 /\ def_out.blocks[1].k = def_in.obj.lemma


\* ------------------------------------------------------ blocks are not empty

\* The line ends with the suffix.
EndsWith(line, suffix) ==
    /\ Len(line) >= Len(suffix)
    /\ SubSeq(line, Len(line) - Len(suffix) + 1, Len(line)) = suffix

\* The blocks appended so far under the headword h, as <<label, block>>.
BlockList(h) == DictGet(word_to_def_blocks, h, <<>>)

\* C21: every block in a headword's list is non-empty and opens with a
\* meaning line, which closes with the source label in parentheses; so no
\* block in a list is ever the bare fallback line, and no compiled definition
\* text is empty.  A rendered record without a meaning has a block whose
\* first line is its headword, its part of speech if any and the label.
C21_BlocksNeverEmpty ==
    /\ \A i \in 1..Len(word_to_def_blocks) :
           /\ word_to_def_blocks[i].v # <<>>
           /\ \A j \in 1..Len(word_to_def_blocks[i].v) :
                  LET label == word_to_def_blocks[i].v[j][1]
                      block == word_to_def_blocks[i].v[j][2]
                  IN  /\ block # <<>>
                      /\ EndsWith(Head(SplitLines(block)), Parenthesized(label))
                      /\ Len(Head(SplitLines(block))) > Len(Parenthesized(label))
    /\ pc \in {"build", "done"} =>
           /\ \A e \in 1..Len(entries) : entries[e][2] # <<>>
           /\ \A p \in Places :
                  (Rendered(p) /\ Strip(LineAt(p).meaning_hu) = <<>>) =>
                      \E j \in 1..Len(BlockList(HeadWord(LineAt(p)))) :
                          LET pair == BlockList(HeadWord(LineAt(p)))[j]
                          IN  /\ pair[1] = sources[p[1]].label
                              /\ Head(SplitLines(pair[2])) =
                                     HeadWord(LineAt(p))
                                         \o Parenthesized(Strip(LineAt(p).pos_hu))
                                         \o Parenthesized(pair[1])

\* A record of "a" without a meaning came after one with the same example
\* sentence: its block is the one line "a (<label>)"; and "b", whose record
\* has neither meaning nor examples, is compiled as "b (<label>)".
C21_Witness ==
    /\ pc = "done"
    /\ \E j \in 1..Len(BlockList(<<97>>)) :
           BlockList(<<97>>)[j][2] = <<97>> \o Parenthesized(BlockList(<<97>>)[j][1])
    /\ Len(BlockList(<<98>>)) = 1
    /\ BlockList(<<98>>)[1][2] = <<98>> \o Parenthesized(BlockList(<<98>>)[1][1])

\* build_definition on its own, for a record whose word and lemma are absent
\* or empty and which has no meaning and no example: the block is "<?>".
FallbackWhenHeadwordEmpty ==
    (/\ def_out.applied
     /\ def_in.obj.word = <<>> /\ def_in.obj.lemma = <<>>
     /\ Strip(def_in.obj.meaning_hu) = <<>>
     /\ def_in.obj.example_surface_en = <<>> /\ def_in.obj.example_lemma_en = <<>>)
        => def_out.block = <<60, 63, 62>>


\* ------------------------------------------ which record keeps an example

\* All places in the order the loader reads them: file after file, line
\* after line.
PlacesInOrder ==
    Concat([f \in 1..Len(sources) |->
               [j \in 1..Len(sources[f].lines) |-> <<f, j>>]])

\* The rendered records of headword h, in the order they are read.
RecordsInOrder(h) ==
    SelectSeq(PlacesInOrder, LAMBDA p : Rendered(p) /\ HeadWord(LineAt(p)) = h)

\* q is read before p.
ReadBefore(q, p) == q[1] < p[1] \/ (q[1] = p[1] /\ q[2] < p[2])

\* The example sentences of the rendered records of p's headword that are
\* read before p.
CarriedBefore(p) ==
    {ex \in UNION {{Strip(LineAt(q).example_surface_en),
                    Strip(LineAt(q).example_lemma_en)} :
                       q \in {r \in Contributing(HeadWord(LineAt(p))) : ReadBefore(r, p)}} :
        ex # <<>>}

\* The example lines claimed for the block of p: each of its two sentences
\* unless an earlier record, or p itself, has had it already.
KeptExamples(p) ==
    LET ex1 == Strip(LineAt(p).example_surface_en)
        ex2 == Strip(LineAt(p).example_lemma_en)
        keep1 == ex1 # <<>> /\ ex1 \notin CarriedBefore(p)
        keep2 == ex2 # <<>> /\ ex2 \notin CarriedBefore(p) /\ ex2 # ex1
    IN  (IF keep1 THEN <<ex1>> ELSE <<>>) \o (IF keep2 THEN <<ex2>> ELSE <<>>)

\* C22: once the blocks of a headword have been sorted by priority, they
\* are, block for block, those of its rendered records in reading order put
\* into priority order, and the example lines of each block are the sentences
\* of its record that no record read before it carried: the record read first
\* keeps a shared sentence, wherever the sort puts its block.
C22_FirstReadKeepsExample ==
    pc \in {"build", "done"} =>
        \A i \in 1..Len(entries) :
            LET h == entries[i][1]
                claimed == [k \in 1..Len(RecordsInOrder(h)) |->
                               << sources[RecordsInOrder(h)[k][1]].label,
                                  KeptExamples(RecordsInOrder(h)[k]) >>]
            IN  [j \in 1..Len(BlockList(h)) |->
                    << BlockList(h)[j][1], Tail(SplitLines(BlockList(h)[j][2])) >>]
                = InPriorityOrder(claimed)

\* The file read first is gemma3:27b's and holds a / m (p) / x, y; the file of
\* GPT-5-mini holds " a" / x.  The block of GPT-5-mini comes first and has no
\* example line; the block of gemma3:27b after it has kept x and y.
C22_Witness ==
    /\ pc = "done"
    /\ sources[1].label = gemma3
    /\ Len(BlockList(<<97>>)) = 2
    /\ BlockList(<<97>>)[1] = <<GPT5mini, <<97>> \o Parenthesized(GPT5mini)>>
    /\ BlockList(<<97>>)[2][1] = gemma3
    /\ Tail(SplitLines(BlockList(<<97>>)[2][2])) = << <<120>>, <<121>> >>


\* --------------------------------------------- skipped records and the seen set

\* The line at p has been read.
Processed(p) == p[1] < src \/ (p[1] = src /\ p[2] < ln)

\* The example sentences of the rendered records of h read so far.
SeenSoFar(h) ==
    {ex \in UNION {{Strip(LineAt(p).example_surface_en),
                    Strip(LineAt(p).example_lemma_en)} :
                       p \in {q \in Contributing(h) : Processed(q)}} :
        ex # <<>>}

\* The lines of all blocks of headword h.
BlockLines(h) ==
    UNION {{SplitLines(BlockList(h)[j][2])[k] :
                k \in 1..Len(SplitLines(BlockList(h)[j][2]))} :
               j \in 1..Len(BlockList(h))}

\* C25: at every point of the reading, the seen sets are those of the
\* headwords of the rendered records read so far, each holding the example
\* sentences of these records and nothing else: a record that is skipped,
\* for "ok" false or for a blank headword, adds no set and no sentence.  Every
\* sentence of a rendered record is then a line of its headword's blocks,
\* also when a skipped record of that headword carried it before.
C25_SkippedLeavesSeenSet ==
    /\ {word_to_seen_examples[i].k : i \in 1..Len(word_to_seen_examples)}
           = {HeadWord(LineAt(p)) : p \in {q \in Places : Rendered(q) /\ Processed(q)}}
    /\ \A i \in 1..Len(word_to_seen_examples) :
           word_to_seen_examples[i].v = SeenSoFar(word_to_seen_examples[i].k)
    /\ \A p \in Places :
           (Rendered(p) /\ Processed(p)) =>
               \A ex \in {Strip(LineAt(p).example_surface_en),
                          Strip(LineAt(p).example_lemma_en)} \ {<<>>} :
                   ex \in BlockLines(HeadWord(LineAt(p)))

\* The first line of a file is the record of "a" whose "ok" is false, with
\* the sentence x, the second the record without headword, with x too, the
\* third a rendered record of "a" with x: the block of "a" has the line x.
C25_Witness ==
    /\ pc = "done"
    /\ Len(sources[1].lines) = 3
    /\ sources[1].lines[1].ok = "False"
    /\ HeadWord(sources[1].lines[1]) = <<97>>
    /\ HeadWord(sources[1].lines[2]) = <<>>
    /\ Rendered(<<1, 3>>)
    /\ \A k \in 1..3 : Strip(sources[1].lines[k].example_surface_en) = <<120>>
    /\ Len(BlockList(<<97>>)) = 1
    /\ <<120>> \in BlockLines(<<97>>)


\* ------------------------------------------- an overflow and the files on disk

\* The sum of the payload sizes of the entries before the k-th: the offset
\* of the k-th entry.
RECURSIVE OffsetOf(_)
OffsetOf(k) == IF k = 1 THEN Wide(0, 0) ELSE WideAdd(OffsetOf(k - 1), pk.pay[k - 1])

\* Some entry's payload size or offset is beyond 2^32 - 1.
Overflows ==
    \E k \in 1..Len(pk.pay) : ExceedsUint32(pk.pay[k]) \/ ExceedsUint32(OffsetOf(k))

\* C23: when the payload size or the offset of some entry is beyond
\* 2^32 - 1, the run gets no further than build_dict_and_idx, it ends with
\* struct.error, and it has opened none of the three files: OUTPUT_DIR is
\* empty or holds the files of the earlier run as they were.  The run ends
\* with struct.error in no other case.
C23_OverflowWritesNothing ==
    /\ Overflows =>
           /\ m[1].pc \in {"compile", "failed"}
           /\ m[1].pc = "failed" => m[1].error = "struct.error" /\ pk.pc = "raised"
           /\ m[1].opened = {}
           /\ m[1].written = {}
           /\ disk \in {[EmptyDisk EXCEPT !.dir = TRUE], OldDisk}
    /\ m[1].error = "struct.error" => Overflows

\* Three entries whose payloads each fit; the offset of the third is beyond
\* 2^32 - 1.  The run has ended with struct.error and the files of the earlier
\* run are as they were.
C23_Witness ==
    /\ m[1].pc = "failed"
    /\ m[1].error = "struct.error"
    /\ Len(pk.pay) = 3
    /\ \A k \in 1..3 : ~ExceedsUint32(pk.pay[k])
    /\ pk.i = 3
    /\ disk = OldDisk


\* ------------------------------------------------- the compressed data file

\* C24: when a run has ended normally and a .dict.dz exists, or is listed in
\* the closing report, it is the compressed form of the data file this run
\* wrote; so after a run in which dictzip was not found or exited with an
\* error, no .dict.dz of an earlier run with other data is there or listed.
C24_CompanionIsFromThisRun ==
    m[1].pc = "finished" =>
        /\ disk.dz.exists => disk.dz.data = Compressed(m[1].dict_data)
        /\ "dz" \in m[1].listed =>
               disk.dz.exists /\ disk.dz.data = Compressed(m[1].dict_data)

\* When dictzip has done its work in this run, the .dict.dz is the compressed
\* form of this run's data file and is listed.
CompanionAfterDictzip ==
    (m[1].pc = "finished" /\ m[1].dictzip \in {"kept", "replaced"}) =>
        /\ disk.dz = File(Compressed(m[1].dict_data))
        /\ "dz" \in m[1].listed


\* ------------------------------------------------ the shapes of "pos_hu"

\* C26: a record whose "ok" is true and whose "pos_hu" is a string or a
\* non-empty list of strings, as the two generators write it, gets a block
\* from build_definition, and no exception ends the run.
C26_GeneratedShapesAccepted ==
    (/\ def_out.applied
     /\ def_in.obj.ok = "True"
     /\ \/ def_in.obj.pos_hu.type = "str"
        \/ def_in.obj.pos_hu.type = "list" /\ def_in.obj.pos_hu.v # <<>>)
        => /\ def_out.error = ""
           /\ Len(def_out.blocks) = 1
           /\ Len(def_out.blocks[1].v) = 1
           /\ def_out.blocks[1].v[1][2] # <<>>

\* A record whose "pos_hu" is a string, or an empty list, gets its block.
StringShapeAccepted ==
    (/\ def_out.applied
     /\ def_in.obj.ok = "True"
     /\ \/ def_in.obj.pos_hu.type = "str"
        \/ def_in.obj.pos_hu.v = <<>>)
        => /\ def_out.error = ""
           /\ Len(def_out.blocks) = 1
           /\ def_out.blocks[1].v[1][2] # <<>>

====
